---- MODULE Spec2Model ----
(***************************************************************************)
(* CropConnect "AI Mitra" backend: the per-user chat history kept by       *)
(* ChatbotService (chatbot_service.py) and by the direct endpoint          *)
(* (main.py), and the in-memory VectorDatabase (rag_service.py).           *)
(*                                                                         *)
(* Python lists are sequences, dicts are functions whose DOMAIN is the key *)
(* set.  A coroutine runs atomically between two awaits (asyncio is        *)
(* cooperative), so one action is the code between two suspension points.  *)
(***************************************************************************)
EXTENDS Integers, Sequences, FiniteSets, TLC

VARIABLES
    deployment,     \* which app serves the requests: "service" | "direct"
    chat_memory,    \* chatbot_service.py:13  user id -> list of turns
    chat_history,   \* main.py:63             user id -> list of turns
    clock,          \* datetime.now(): one tick per stored turn
    pc,             \* per request slot: "idle" | "await_llm"
    req,            \* per request slot: the locals of the running coroutine
    appended,       \* history: per user, every turn appended since the last clear
    stores,         \* the VectorDatabase objects: dimension, vectors, metadata
    files,          \* the file system: path -> JSON document
    saved,          \* history: path -> the store as it was when last saved there
    adds,           \* history: how many documents were added
    app_context_file,   \* config.py:18  what the file at APP_CONTEXT_PATH holds
    context_keywords,   \* navigation_service.py:21  route -> keywords, in insertion order
    last            \* history: what the last step did (operation, arguments, result)

configVars == <<app_context_file, context_keywords>>
chatVars == <<configVars, deployment, chat_memory, chat_history, clock, pc, req, appended>>
storeVars == <<stores, files, saved, adds>>
vars == <<app_context_file, context_keywords,
          deployment, chat_memory, chat_history, clock, pc, req, appended,
          stores, files, saved, adds, last>>

(***************************************************************************)
(* Bounds of the model                                                     *)
(***************************************************************************)
MaxClock == 4           \* turns stored in one run of Spec
MaxLongClock == 12      \* turns stored in one run of SpecLong: 6 pairs
MaxRecords == 2         \* documents added in one run of SpecStore
MaxFileRecords == 2     \* documents added in one run of SpecFiles
MaxReplyClock == 2      \* turns stored in one run of SpecReply: one exchange
MaxContexts == 4        \* navigation contexts in the configuration of SpecNav

(***************************************************************************)
(* Program constants                                                       *)
(***************************************************************************)
MaxHistory == 10        \* chatbot_service.py:76, main.py:236
DefaultDimension == 384 \* rag_service.py:11

None == "None"          \* Python's None where a string is expected
Slots == {"s1", "s2"}                \* requests in flight at once
Users == {"u1", "u2"}
UserIds == Users \cup {None, ""}     \* user_id: Optional[str]
Truthy(user_id) == user_id # None /\ user_id # ""

(***************************************************************************)
(* Text: a str is a sequence of one-character strings                      *)
(***************************************************************************)
LowerCase ==
    <<"a","b","c","d","e","f","g","h","i","j","k","l","m",
      "n","o","p","q","r","s","t","u","v","w","x","y","z">>
UpperCase ==
    <<"A","B","C","D","E","F","G","H","I","J","K","L","M",
      "N","O","P","Q","R","S","T","U","V","W","X","Y","Z">>
Range(s) == {s[i] : i \in DOMAIN s}
Letters == Range(LowerCase) \cup Range(UpperCase)
Whitespace == {" ", "\t", "\n"}
Separators == Whitespace \cup {":", "-"}

Lower(c) ==
    IF c \in Range(UpperCase)
    THEN LowerCase[CHOOSE i \in DOMAIN UpperCase : UpperCase[i] = c]
    ELSE c

\* The last index of the longest run of characters of S that starts at i
\* (i - 1 when text[i] is not in S): a greedy  [S]*  from position i.
RunEnd(text, i, S) ==
    CHOOSE j \in (i - 1)..Len(text) :
        /\ \A k \in i..j : text[k] \in S
        /\ j = Len(text) \/ text[j + 1] \notin S

\* re:  ^in\s+([a-zA-Z]+)[\s:-]\s*   with re.IGNORECASE.
\* The index of the last character the pattern consumes, 0 when it does not match.
PrefixEnd(text) ==
    IF Len(text) < 2 \/ Lower(text[1]) # "i" \/ Lower(text[2]) # "n" THEN 0
    ELSE LET s == RunEnd(text, 3, Whitespace)
             w == RunEnd(text, s + 1, Letters)
         IN  IF s < 3 \/ w < s + 1 \/ w + 1 > Len(text) THEN 0
             ELSE IF text[w + 1] \notin Separators THEN 0
             ELSE RunEnd(text, w + 2, Whitespace)

clean_language_prefix(text) ==
    SubSeq(text, PrefixEnd(text) + 1, Len(text))

(***************************************************************************)
(* Inputs                                                                  *)
(***************************************************************************)
Messages ==
    { <<"i","n"," ","h","i",":"," ","o","k">>,
      <<"h","i">> }

\* What the awaited upstream call can come back with.
Outcomes ==
    { [kind |-> "ok", text |-> <<"r">>],
      [kind |-> "status", code |-> 500] }

(***************************************************************************)
(* ClaudeService.generate_farming_response: the advice message             *)
(***************************************************************************)
ApiError(code) == <<"API Error: ", ToString(code)>>     \* claude_service.py:50

(***************************************************************************)
(* Lists                                                                   *)
(***************************************************************************)
\* list[-n:]
LastN(list, n) ==
    IF Len(list) <= n THEN list ELSE SubSeq(list, Len(list) - n + 1, Len(list))

\* dict.get(key, [])
Get(dict, key) == IF key \in DOMAIN dict THEN dict[key] ELSE <<>>

\* dict[key] = value
Put(dict, key, value) ==
    [k \in DOMAIN dict \cup {key} |-> IF k = key THEN value ELSE dict[k]]

(***************************************************************************)
(* load_app_context (config.py) and NavigationService.__init__             *)
(***************************************************************************)
StrProblem == <<"p","r","o","b","l","e","m">>
StrProblemCapital == <<"P","r","o","b","l","e","m">>
StrProblems == <<"P","r","o","b","l","e","m","s">>
StrHelp == <<"h","e","l","p">>
StrTools == <<"t","o","o","l","s">>
StrTalkTools == <<"t","a","l","k"," ","t","o","o","l","s">>

\* One entry of "navigation_contexts".  A context without a "route" key has
\* route None: context.get("route").
Contexts ==
    { [route |-> "/chatbot", intent_keywords |-> <<StrHelp>>, user_needs |-> <<>>],
      [route |-> "/podcasts", intent_keywords |-> <<StrProblemCapital>>,
       user_needs |-> <<StrProblem>>],
      [route |-> "/community", intent_keywords |-> <<>>, user_needs |-> <<>>],
      [route |-> "/community", intent_keywords |-> <<StrProblem>>,
       user_needs |-> <<StrProblem>>],
      [route |-> "/search-cooperatives", intent_keywords |-> <<StrProblem>>,
       user_needs |-> <<StrProblemCapital>>],
      [route |-> None, intent_keywords |-> <<StrProblem>>, user_needs |-> <<>>] }

RECURSIVE SeqsUpTo(_, _)
SeqsUpTo(S, n) ==
    IF n = 0 THEN { <<>> }
    ELSE LET shorter == SeqsUpTo(S, n - 1)
         IN  shorter \cup { Append(q, x) : q \in shorter, x \in S }

\* What open(APP_CONTEXT_PATH) and json.load find.
AppContextFiles(bound) ==
    { [kind |-> "missing"], [kind |-> "invalid"], [kind |-> "json", document |-> <<>>] }
    \cup { [kind |-> "json", document |-> [navigation_contexts |-> contexts]] :
              contexts \in SeqsUpTo(Contexts, bound) }

\* Variant: a failed load falls back to a built-in configuration.
load_app_context_builtin(file) ==
    IF file.kind = "json" THEN file.document
    ELSE [navigation_contexts |->
             << [route |-> "/resource-pool", intent_keywords |-> <<>>,
                 user_needs |-> <<>>] >>]

\* config.py:20-27: every exception of open or json.load gives {}.
load_app_context(file) ==
    IF file.kind = "json" THEN file.document ELSE <<>>

\* navigation_service.py:13  app_context.get("navigation_contexts", [])
navigation_contexts(app_context) ==
    IF "navigation_contexts" \in DOMAIN app_context
    THEN app_context.navigation_contexts
    ELSE <<>>

\* Lines 19-37.  A dict keeps its keys in the order of their first insertion; a
\* route that comes again keeps its place and takes the later keywords.
\* list(set(keywords)): each distinct keyword once.
RECURSIVE extract_keywords(_)
extract_keywords(contexts) ==
    IF contexts = <<>> THEN <<>>
    ELSE LET earlier == extract_keywords(SubSeq(contexts, 1, Len(contexts) - 1))
             context == contexts[Len(contexts)]
             entry == [route |-> context.route,
                       keywords |-> Range(context.intent_keywords)
                                        \cup Range(context.user_needs)]
         IN  IF ~Truthy(context.route) THEN earlier
             ELSE IF \E i \in DOMAIN earlier : earlier[i].route = context.route
             THEN [i \in DOMAIN earlier |->
                      IF earlier[i].route = context.route THEN entry ELSE earlier[i]]
             ELSE Append(earlier, entry)

(***************************************************************************)
(* NavigationService.suggest_navigations                                   *)
(***************************************************************************)
\* \w
WordChars == Letters \cup {"0","1","2","3","4","5","6","7","8","9"} \cup {"_"}

\* str.lower()
RECURSIVE LowerStr(_)
LowerStr(text) ==
    IF text = <<>> THEN <<>>
    ELSE Append(LowerStr(SubSeq(text, 1, Len(text) - 1)), Lower(text[Len(text)]))

\* part in text
Contains(text, part) ==
    \E i \in 0..(Len(text) - Len(part)) :
        SubSeq(text, i + 1, i + Len(part)) = part

\* \b between text[p] and text[p + 1]: a word character on exactly one side.
IsWordAt(text, i) == i \in 1..Len(text) /\ text[i] \in WordChars
Boundary(text, p) == IsWordAt(text, p) # IsWordAt(text, p + 1)

\* Line 51: re.search(r'\b' + re.escape(keyword) + r'\b', text)
re_search_word(keyword, text) ==
    \E i \in 0..(Len(text) - Len(keyword)) :
        /\ Boundary(text, i)
        /\ Boundary(text, i + Len(keyword))
        /\ SubSeq(text, i + 1, i + Len(keyword)) = keyword

\* extracted_entities.get(key, []) for the keys that hold lists
TagsGet(tags, key) == IF key \in DOMAIN tags THEN tags[key] ELSE <<>>

\* Line 63: "city" in extracted_entities and extracted_entities["city"]
HasCity(tags) == "city" \in DOMAIN tags /\ tags["city"] # None /\ tags["city"] # ""

Bonus(condition, points) == IF condition THEN points ELSE 0

\* Variant: the "/chatbot" rule of lines 76-78 is left out.
chatbot_bonus_missing(route, text, tags) == 0

\* Lines 76-78
chatbot_bonus(route, text, tags) ==
    Bonus(route = "/chatbot"
            /\ (\/ \E term \in {StrHelp, StrProblem, <<"a","d","v","i","c","e">>,
                                <<"i","s","s","u","e">>} : Contains(text, term)
                \/ TagsGet(tags, "issues") # <<>>),
          4)

\* Lines 47-91: the score of one route.  text is message.lower().
route_score(route, keywords, text, tags) ==
      2 * Cardinality({k \in keywords : re_search_word(LowerStr(k), text)})
    + Bonus(TagsGet(tags, "crops") # <<>>
              /\ route \in {"/resource-pool", "/podcasts", "/chatbot"}, 3)
    + Bonus(HasCity(tags)
              /\ route \in {"/search-cooperatives", "/nearby-cooperatives"}, 3)
    + Bonus(route = "/podcasts"
              /\ (\/ Contains(text, <<"l","e","a","r","n">>)
                  \/ Contains(text, <<"i","n","f","o","r","m","a","t","i","o","n">>)
                  \/ \E topic \in Range(TagsGet(tags, "topics")) :
                        topic \in {"cultivation", "farming techniques",
                                  "agricultural education"}), 3)
    + Bonus(route = "/resource-pool"
              /\ (\/ Contains(text, <<"e","q","u","i","p","m","e","n","t">>)
                  \/ Contains(text, StrTools)), 2)
    + chatbot_bonus(route, text, tags)
    + Bonus(route = "/community"
              /\ \E term \in {<<"d","i","s","c","u","s","s">>, <<"t","a","l","k">>,
                              <<"o","t","h","e","r"," ","f","a","r","m","e","r","s">>} :
                    Contains(text, term), 2)
    + Bonus(TagsGet(tags, "crops") # <<>> /\ route = "/chatbot", 3)
    + Bonus(TagsGet(tags, "issues") # <<>> /\ route = "/community", 2)

\* Lines 44-91: the loop over context_keywords.items() fills route_scores, one
\* (route, score) pair per route, in insertion order.
RECURSIVE route_scores(_, _, _)
route_scores(keywords_by_route, message, tags) ==
    IF keywords_by_route = <<>> THEN <<>>
    ELSE LET n == Len(keywords_by_route)
         IN  Append(route_scores(SubSeq(keywords_by_route, 1, n - 1), message, tags),
                    [route |-> keywords_by_route[n].route,
                     score |-> route_score(keywords_by_route[n].route,
                                           keywords_by_route[n].keywords,
                                           LowerStr(message), tags)])

Without(list, i) == SubSeq(list, 1, i - 1) \o SubSeq(list, i + 1, Len(list))

\* Variant: among equal scores the one inserted last comes first.
RECURSIVE sorted_ties_reversed(_)
sorted_ties_reversed(items) ==
    IF items = <<>> THEN <<>>
    ELSE LET first == CHOOSE i \in DOMAIN items :
                          /\ \A j \in DOMAIN items : items[j].score <= items[i].score
                          /\ \A j \in (i + 1)..Len(items) : items[j].score < items[i].score
         IN  <<items[first]>> \o sorted_ties_reversed(Without(items, first))

\* Line 94: sorted(items, key=score, reverse=True).  The sort is stable, also
\* with reverse=True: equal scores stay in the order they had.
RECURSIVE sorted_by_score(_)
sorted_by_score(items) ==
    IF items = <<>> THEN <<>>
    ELSE LET first == CHOOSE i \in DOMAIN items :
                          /\ \A j \in DOMAIN items : items[j].score <= items[i].score
                          /\ \A j \in 1..(i - 1) : items[j].score < items[i].score
         IN  <<items[first]>> \o sorted_by_score(Without(items, first))

\* list[:n]
FirstN(list, n) == IF Len(list) <= n THEN list ELSE SubSeq(list, 1, n)

PositiveScore(item) == item.score > 0

\* Variant: [:4] in place of [:3].
top_routes_four(sorted_routes) ==
    LET positive == SelectSeq(sorted_routes, PositiveScore)
    IN  FirstN([i \in 1..Len(positive) |-> positive[i].route], 4)

\* Line 95: [route for route, score in sorted_routes if score > 0][:3]
top_routes(sorted_routes) ==
    LET positive == SelectSeq(sorted_routes, PositiveScore)
    IN  FirstN([i \in 1..Len(positive) |-> positive[i].route], 3)

\* Variant: "/chatbot" is appended whether or not it is in the list.
with_chatbot_always(suggestions) ==
    IF suggestions # <<>> THEN Append(suggestions, "/chatbot") ELSE suggestions

\* Lines 98-99
with_chatbot(suggestions) ==
    IF "/chatbot" \notin Range(suggestions) /\ suggestions # <<>>
    THEN Append(suggestions, "/chatbot")
    ELSE suggestions

DefaultSuggestions == <<"/chatbot", "/podcasts", "/community">>

\* Lines 102-103
with_defaults(suggestions) ==
    IF suggestions = <<>> THEN DefaultSuggestions ELSE suggestions

\* Lines 93-105: from the scores to the list returned.
suggestions(scores) ==
    with_defaults(with_chatbot(top_routes(sorted_by_score(scores))))

suggest_navigations(keywords_by_route, message, tags) ==
    suggestions(route_scores(keywords_by_route, message, tags))

NavMessages == { <<>>, StrProblem, StrProblems, StrTalkTools }

\* extracted_entities: {} and dicts of the five keys.
DefaultTags ==
    [crops |-> <<>>, city |-> None, topics |-> <<>>, issues |-> <<>>, seasons |-> <<>>]
NavTags ==
    { <<>>,
      DefaultTags,
      [DefaultTags EXCEPT !.issues = <<"pest">>],
      [DefaultTags EXCEPT !.crops = <<"wheat">>, !.topics = <<"irrigation">>],
      [DefaultTags EXCEPT !.crops = <<"wheat">>, !.city = "pune",
                          !.topics = <<"cultivation">>, !.issues = <<"pest">>] }

\* The call changes nothing but `last`: a call that follows a call starts from
\* the same service and reaches no state a single call does not reach.
SuggestNavigations(message, tags) ==
    /\ last.op # "suggest_navigations"
    /\ LET scores == route_scores(context_keywords, message, tags)
       IN  last' = [op |-> "suggest_navigations", message |-> message, tags |-> tags,
                    route_scores |-> scores, returned |-> suggestions(scores)]
    /\ UNCHANGED <<chatVars, storeVars>>

(***************************************************************************)
(* LanguageService (language_service.py)                                   *)
(***************************************************************************)
\* config.py:30-37: SUPPORTED_LANGUAGES, in the order of the dict.
SUPPORTED_LANGUAGES ==
    << [code |-> <<"e","n">>, name |-> <<"E","n","g","l","i","s","h">>],
       [code |-> <<"h","i">>, name |-> <<"H","i","n","d","i">>],
       [code |-> <<"p","a">>, name |-> <<"P","u","n","j","a","b","i">>],
       [code |-> <<"t","a">>, name |-> <<"T","a","m","i","l">>],
       [code |-> <<"t","e">>, name |-> <<"T","e","l","u","g","u">>],
       [code |-> <<"m","r">>, name |-> <<"M","a","r","a","t","h","i">>] >>

LanguageCodes == { SUPPORTED_LANGUAGES[i].code : i \in DOMAIN SUPPORTED_LANGUAGES }

\* config.py:40
DEFAULT_LANGUAGE == <<"e","n">>

\* NoText stands for None where a str is expected.
NoText == <<"None">>

\* re:  ^in\s+([a-zA-Z]+)[\s:-]   with re.IGNORECASE (line 41).
\* group(1) when the pattern matches, NoText when it does not.
PrefixWord(text) ==
    IF Len(text) < 2 \/ Lower(text[1]) # "i" \/ Lower(text[2]) # "n" THEN NoText
    ELSE LET s == RunEnd(text, 3, Whitespace)
             w == RunEnd(text, s + 1, Letters)
         IN  IF s < 3 \/ w < s + 1 \/ w + 1 > Len(text) THEN NoText
             ELSE IF text[w + 1] \notin Separators THEN NoText
             ELSE SubSeq(text, s + 1, w)

\* Line 53: lang_name in name.lower()
name_matches(lang_name, name) == Contains(LowerStr(name), lang_name)

\* Lines 38-56
extract_explicit_language(text) ==
    LET word == PrefixWord(text)
        lang_name == LowerStr(word)
        named == { i \in DOMAIN SUPPORTED_LANGUAGES :
                      name_matches(lang_name, SUPPORTED_LANGUAGES[i].name) }
    IN  IF word = NoText THEN NoText
        ELSE IF lang_name \in LanguageCodes THEN lang_name
        ELSE IF named # {}
        THEN SUPPORTED_LANGUAGES[CHOOSE i \in named : \A j \in named : i <= j].code
        ELSE NoText

\* What langdetect.detect(text) can come back with: a language code, or
\* LangDetectException.
Raised == <<"LangDetectException">>
Detections ==
    { <<"e","n">>, <<"h","i">>, <<"u","r">>, <<"f","r">>, <<"z","h","-","c","n">>, <<"e","n","-","u","s">>, Raised }

\* str.split('-')[0]
BeforeHyphen(code) ==
    IF "-" \notin Range(code) THEN code
    ELSE SubSeq(code, 1, (CHOOSE i \in DOMAIN code :
                             code[i] = "-" /\ \A j \in 1..(i - 1) : code[j] # "-") - 1)

\* Lines 18-35: the statistical detection and its mapping to the supported set.
mapped_detection(detected) ==
    IF detected = Raised THEN DEFAULT_LANGUAGE
    ELSE IF detected \in LanguageCodes THEN detected
    ELSE IF "-" \in Range(detected) /\ BeforeHyphen(detected) \in LanguageCodes
    THEN BeforeHyphen(detected)
    ELSE IF detected = <<"u","r">> /\ <<"h","i">> \in LanguageCodes THEN <<"h","i">>
    ELSE DEFAULT_LANGUAGE

\* Lines 10-35.  consulted: whether detect(text) was called.
detect_language(text, detected) ==
    LET explicit_lang == extract_explicit_language(text)
    IN  IF explicit_lang # NoText
        THEN [language |-> explicit_lang, consulted |-> FALSE]
        ELSE [language |-> mapped_detection(detected), consulted |-> TRUE]

Heads == { <<"i","n">>, <<"I","N">>, <<"o","n">> }
Gaps == { <<" ">>, <<" ", "\t">>, <<>> }
Words == { <<"h","i">>, <<"H","i","n","d","i">>, <<"h","i","n","d","i","x">>, <<"a">>, <<"t","h","e">>, <<"T","A">>, <<"m","a","r","a","t","h","i">>, <<>> }
Marks == { <<":">>, <<"-">>, <<" ">>, <<"!">>, <<>>, <<":", " ", " ">> }
Rests == { <<>>, <<"o","k">>, <<"i","n"," ","h","i",":"," ","o","k">> }
Texts ==
    { head \o gap \o word \o mark \o rest :
        head \in Heads, gap \in Gaps, word \in Words, mark \in Marks, rest \in Rests }

\* The two functions change nothing but `last`: a call that follows a call
\* reaches no state a single call does not reach.
LanguageCalls == {"detect_language", "clean_language_prefix"}

DetectLanguage(text, detected) ==
    /\ last.op \notin LanguageCalls
    /\ LET result == detect_language(text, detected)
       IN  last' = [op |-> "detect_language", text |-> text,
                    detected |-> IF result.consulted THEN detected ELSE NoText,
                    consulted |-> result.consulted, returned |-> result.language]
    /\ UNCHANGED <<chatVars, storeVars>>

CleanLanguagePrefix(text) ==
    /\ last.op \notin LanguageCalls
    /\ last' = [op |-> "clean_language_prefix", text |-> text,
                returned |-> clean_language_prefix(text)]
    /\ UNCHANGED <<chatVars, storeVars>>

(***************************************************************************)
(* ClaudeService.generate_farming_response, from the answer of the         *)
(* upstream call on.  An outcome is what client.post came back with:       *)
(*   kind "ok"         status 200, a reply of the expected shape whose     *)
(*                     message is `text` and whose tags are all empty      *)
(*   kind "reply"      status 200, the reply text `text`                   *)
(*   kind "status"     the status `code`, not 200, and no content          *)
(*   kind "transport"  an exception of the HTTP client (timeout, no route) *)
(* A value json.loads gives is kept with its Python type.                  *)
(***************************************************************************)
PyObject(type, value) == [type |-> type, value |-> value]

\* Lines 131-139
default_tags == PyObject("dict", DefaultTags)

\* Reply texts; a str is a sequence, here of one piece.
ReplyArray == <<"[\"m\"]">>
ReplyWithoutTags == <<"{\"message\": \"m\"}">>
ReplyWithTags ==
    <<"{\"message\": \"m\", \"tags\": {\"crops\": [\"wheat\"], \"city\": null, \"topics\": [], \"issues\": [\"pest\"], \"seasons\": []}}">>
ReplyTagsString == <<"{\"message\": \"m\", \"tags\": \"wheat\"}">>
ReplyTagsNull == <<"{\"message\": \"m\", \"tags\": null}">>
ReplyTagsEmpty == <<"{\"message\": \"m\", \"tags\": {}}">>

ReplyTexts ==
    { <<>>, <<"Sorry, I cannot help with that.">>, ReplyArray, ReplyWithoutTags, ReplyWithTags,
      ReplyTagsString, ReplyTagsNull, ReplyTagsEmpty }

JSONDecodeError == PyObject("JSONDecodeError", "")

\* json.loads(response_text), line 61, on the reply texts above.
json_loads(text) ==
    CASE text = ReplyArray -> PyObject("list", <<PyObject("str", <<"m">>)>>)
      [] text = ReplyWithoutTags ->
            PyObject("dict", [message |-> PyObject("str", <<"m">>)])
      [] text = ReplyWithTags ->
            PyObject("dict",
                [message |-> PyObject("str", <<"m">>),
                 tags |-> PyObject("dict",
                     [DefaultTags EXCEPT !.crops = <<"wheat">>, !.issues = <<"pest">>])])
      [] text = ReplyTagsString ->
            PyObject("dict", [message |-> PyObject("str", <<"m">>),
                              tags |-> PyObject("str", <<"wheat">>)])
      [] text = ReplyTagsNull ->
            PyObject("dict", [message |-> PyObject("str", <<"m">>),
                              tags |-> PyObject("NoneType", None)])
      [] text = ReplyTagsEmpty ->
            PyObject("dict", [message |-> PyObject("str", <<"m">>),
                              tags |-> PyObject("dict", <<>>)])
      [] OTHER -> JSONDecodeError

\* Lines 59-71: the reply is taken apart when it is a dict with the two keys,
\* whatever they hold; else the text itself is the message.
parsed_reply(response_text) ==
    LET response_json == json_loads(response_text)
    IN  IF /\ response_json.type = "dict"
           /\ "message" \in DOMAIN response_json.value
           /\ "tags" \in DOMAIN response_json.value
        THEN [message |-> response_json.value["message"],
              tags |-> response_json.value["tags"]]
        ELSE [message |-> PyObject("str", response_text), tags |-> default_tags]

\* response.status_code
status_code(outcome) == IF outcome.kind = "status" THEN outcome.code ELSE 200

\* Lines 55-57: content[0].text, "" when the body has no content.
response_text(outcome) == IF outcome.kind = "reply" THEN outcome.text ELSE <<>>

\* Variant: only 5xx statuses are taken as failures.
below_500(code) == code < 500

\* Line 49
is_success(code) == code = 200

\* Lines 73-76
CommunicationError(error) == <<"Error communicating with Claude API: ", error>>

\* Lines 39-76: the (message, tags) pair returned.
generate_farming_response(outcome) ==
    IF outcome.kind = "transport"
    THEN [message |-> PyObject("str", CommunicationError(outcome.error)),
          tags |-> default_tags]
    ELSE IF ~is_success(status_code(outcome))
    THEN [message |-> PyObject("str", ApiError(outcome.code)), tags |-> default_tags]
    ELSE IF outcome.kind = "ok"
    THEN [message |-> PyObject("str", outcome.text), tags |-> default_tags]
    ELSE parsed_reply(response_text(outcome))

\* chatbot_service.py:43  advice_message, tags = await ...
advice_message(outcome) == generate_farming_response(outcome).message.value

ReplyOutcomes ==
    { [kind |-> "ok", text |-> <<"r">>] }
    \cup { [kind |-> "reply", text |-> text] : text \in ReplyTexts }
    \cup { [kind |-> "status", code |-> code] : code \in {201, 404, 500} }
    \cup { [kind |-> "transport", error |-> error] :
              error \in {"ReadTimeout", "ConnectError"} }

(***************************************************************************)
(* ChatbotService.process_message, lines 51-62: what becomes of the tags   *)
(***************************************************************************)
\* Line 53: suggest_navigations(clean_message, tags) takes the tags for a dict.
\* With no route configured the loop body never runs; else `"crops" in tags`
\* (line 58) raises for None and tags.get (line 84) for a str.  "" when the
\* call returns.
navigation_error(keywords_by_route, tags) ==
    IF tags.type = "dict" \/ keywords_by_route = <<>> THEN ""
    ELSE IF tags.type = "NoneType" THEN "TypeError"
    ELSE "AttributeError"

\* Line 59: TagsModel(**tags) if tags else TagsModel().  None and {} are falsy;
\* ** raises for what is not a mapping.
tags_model_error(tags) ==
    IF tags.type = "dict" \/ tags.type = "NoneType" THEN "" ELSE "TypeError"

\* The TagsModel of the response: the fields the tags do not give are empty.
TagsModel(tags) ==
    IF tags.type # "dict" THEN DefaultTags
    ELSE [key \in DOMAIN DefaultTags |->
             IF key \in DOMAIN tags.value THEN tags.value[key] ELSE DefaultTags[key]]

\* Lines 51-62: the ChatResponse returned, or the exception that leaves
\* process_message.
chat_response(keywords_by_route, clean_message, generated) ==
    LET error == IF navigation_error(keywords_by_route, generated.tags) # ""
                 THEN navigation_error(keywords_by_route, generated.tags)
                 ELSE tags_model_error(generated.tags)
    IN  IF error # ""
        THEN [raised |-> error]
        ELSE [raised |-> "",
              status |-> 200,
              message |-> generated.message.value,
              navigations |->
                  suggest_navigations(keywords_by_route, clean_message,
                      IF generated.tags.type = "dict" THEN generated.tags.value
                      ELSE <<>>),
              tags |-> TagsModel(generated.tags)]

(***************************************************************************)
(* ChatbotService._add_to_chat_history                                     *)
(***************************************************************************)
Turn(role, content, timestamp) ==
    [role |-> role, content |-> content, timestamp |-> timestamp]

\* Variant: list.insert(0, turn) in place of list.append(turn).
AppendedInFront(memory, user_id, turn) == <<turn>> \o Get(memory, user_id)

\* The list object after the append (line 69), before the truncation.
Appended(memory, user_id, turn) == Append(Get(memory, user_id), turn)

\* Variant: list[:10] in place of list[-10:].
TruncateKeepOldest(list) ==
    IF Len(list) <= MaxHistory THEN list ELSE SubSeq(list, 1, MaxHistory)

\* Lines 76-77: keep only the last 10 messages.
Truncate(list) == LastN(list, MaxHistory)

add_to_chat_history(memory, user_id, turn) ==
    Put(memory, user_id, Truncate(Appended(memory, user_id, turn)))

\* Line 77 rebinds chat_memory[user_id] to a new list exactly when it truncates.
Rebinds(memory, user_id) == Len(Get(memory, user_id)) + 1 > MaxHistory

(***************************************************************************)
(* The locals of a coroutine.  user_history (line 36) is a reference to    *)
(* the list object held in chat_memory, not a copy: while `aliased` is     *)
(* TRUE it is that very object, and every append to it shows through the   *)
(* reference.  The reference is left behind with the old object when       *)
(* chat_memory[user_id] is rebound (truncation, clear).                    *)
(***************************************************************************)
NoRequest ==
    [user_id |-> None, message |-> <<>>, has_history |-> FALSE,
     user_history |-> <<>>, aliased |-> FALSE, stored_at_start |-> <<>>,
     requests |-> 0]

\* The references other coroutines hold to user_id's list object, after `turn`
\* was appended to it and, if `rebound`, chat_memory[user_id] was rebound.
Aliases(r, user_id, turn, rebound) ==
    [p \in Slots |->
        IF r[p].user_id = user_id /\ r[p].aliased
        THEN [r[p] EXCEPT !.user_history = Append(@, turn),
                          !.aliased = ~rebound]
        ELSE r[p]]

Dropped(r, user_id) ==
    [p \in Slots |->
        IF r[p].user_id = user_id THEN [r[p] EXCEPT !.aliased = FALSE] ELSE r[p]]

LogAppend(log, user_id, turn) ==
    [log EXCEPT ![user_id] = Append(@, turn)]

(***************************************************************************)
(* ChatbotService.process_message, up to the awaited upstream call         *)
(***************************************************************************)
\* Variant: the user turn is not stored before the call.
user_turn_not_added(memory, user_id, turn) == memory

\* Lines 39-40: the current message goes into the history before the call.
user_turn_added(memory, user_id, turn) == add_to_chat_history(memory, user_id, turn)

InFlight == Cardinality({p \in Slots : pc[p] = "await_llm" /\ Truthy(req[p].user_id)})

ProcessMessageStart(p, message, user_id, bound) ==
    /\ deployment = "service"
    /\ pc[p] = "idle"
    /\ Truthy(user_id) => clock + InFlight + 2 <= bound
    /\ LET clean_message == clean_language_prefix(message)
           known == Truthy(user_id) /\ user_id \in DOMAIN chat_memory
           turn == Turn("user", clean_message, clock + 1)
           mine == [user_id |-> user_id, message |-> clean_message,
                    has_history |-> known,
                    user_history |-> Get(chat_memory, user_id),
                    aliased |-> known,
                    stored_at_start |-> Get(chat_memory, user_id),
                    requests |-> 1]
       IN  IF Truthy(user_id)
           THEN /\ chat_memory' = user_turn_added(chat_memory, user_id, turn)
                /\ req' = Aliases([req EXCEPT ![p] = mine], user_id, turn,
                                  Rebinds(chat_memory, user_id))
                /\ clock' = clock + 1
                /\ appended' = LogAppend(appended, user_id, turn)
           ELSE /\ req' = [req EXCEPT ![p] = mine]
                /\ UNCHANGED <<chat_memory, clock, appended>>
    /\ pc' = [pc EXCEPT ![p] = "await_llm"]
    /\ last' = [op |-> "process_message"]
    /\ UNCHANGED <<configVars, deployment, chat_history, storeVars>>

(***************************************************************************)
(* ChatbotService.process_message, from the return of the upstream call    *)
(***************************************************************************)
\* requests: the upstream requests the call has sent; the one of line 41 is
\* out when the coroutine suspends, and no line sends another.
ProcessMessageFinish(p, outcome) ==
    /\ deployment = "service"
    /\ pc[p] = "await_llm"
    /\ LET user_id == req[p].user_id
           generated == generate_farming_response(outcome)
           message == advice_message(outcome)
           turn == Turn("assistant", message, clock + 1)
           response == chat_response(context_keywords, req[p].message, generated)
       IN  /\ IF Truthy(user_id)
              THEN /\ chat_memory' = add_to_chat_history(chat_memory, user_id, turn)
                   /\ req' = [Aliases(req, user_id, turn, Rebinds(chat_memory, user_id))
                                 EXCEPT ![p] = NoRequest]
                   /\ clock' = clock + 1
                   /\ appended' = LogAppend(appended, user_id, turn)
              ELSE /\ req' = [req EXCEPT ![p] = NoRequest]
                   /\ UNCHANGED <<chat_memory, clock, appended>>
           /\ last' = [op |-> IF response.raised = "" THEN "process_message_return"
                                ELSE "process_message_raise",
                        outcome |-> outcome,
                        requests |-> req[p].requests,
                        generated |-> generated,
                        response |-> response]
    /\ pc' = [pc EXCEPT ![p] = "idle"]
    /\ UNCHANGED <<configVars, deployment, chat_history, storeVars>>

(***************************************************************************)
(* ChatbotService.clear_chat_history                                       *)
(***************************************************************************)
\* Variant: chat_memory.clear() followed by the new empty list.
cleared_all(memory, user_id) ==
    [k \in DOMAIN memory \cup {user_id} |-> <<>>]

\* Line 86: chat_memory[user_id] = []
cleared(memory, user_id) == Put(memory, user_id, <<>>)

ClearChatHistory(user_id) ==
    /\ deployment = "service"
    /\ IF user_id \in DOMAIN chat_memory
       THEN /\ chat_memory' = cleared(chat_memory, user_id)
            /\ req' = Dropped(req, user_id)
            /\ appended' = [appended EXCEPT ![user_id] = <<>>]
            /\ last' = [op |-> "clear_chat_history", user_id |-> user_id, result |-> TRUE]
       ELSE /\ last' = [op |-> "clear_chat_history", user_id |-> user_id, result |-> FALSE]
            /\ UNCHANGED <<chat_memory, req, appended>>
    /\ UNCHANGED <<configVars, deployment, chat_history, clock, pc, storeVars>>

(***************************************************************************)
(* main.py: POST /api/v1/chat                                              *)
(***************************************************************************)
DirectTurn(role, content) == [role |-> role, content |-> content]

\* Lines 221-237: both turns are appended, then the list is cut to its last 10.
store_in_chat_history(history, user_id, message, reply) ==
    Put(history, user_id,
        LastN(Get(history, user_id)
                  \o <<DirectTurn("user", message), DirectTurn("assistant", reply)>>,
              MaxHistory))

ChatStart(p, message, user_id, bound) ==
    /\ deployment = "direct"
    /\ pc[p] = "idle"
    /\ Truthy(user_id) => clock + 2 * InFlight + 2 <= bound
    /\ req' = [req EXCEPT ![p] = [NoRequest EXCEPT !.user_id = user_id,
                                                   !.message = message,
                                                   !.requests = 1]]
    /\ pc' = [pc EXCEPT ![p] = "await_llm"]
    /\ last' = [op |-> "chat"]
    /\ UNCHANGED <<configVars, deployment, chat_memory, chat_history, clock, appended, storeVars>>

ChatFinish(p, outcome) ==
    /\ deployment = "direct"
    /\ pc[p] = "await_llm"
    /\ LET user_id == req[p].user_id
           message == req[p].message
       IN  /\ IF outcome.kind = "ok" /\ Truthy(user_id)
              THEN /\ chat_history' =
                          store_in_chat_history(chat_history, user_id, message, outcome.text)
                   /\ clock' = clock + 2
                   /\ appended' = [appended EXCEPT ![user_id] =
                          @ \o <<DirectTurn("user", message),
                                 DirectTurn("assistant", outcome.text)>>]
              ELSE UNCHANGED <<chat_history, clock, appended>>
           /\ last' = [op |-> "chat_return",
                        response |->
                            IF outcome.kind = "ok"
                            THEN [status |-> 200, message |-> outcome.text]
                            ELSE [status |-> 500, message |-> ApiError(outcome.code)]]
    /\ req' = [req EXCEPT ![p] = NoRequest]
    /\ pc' = [pc EXCEPT ![p] = "idle"]
    /\ UNCHANGED <<configVars, deployment, chat_memory, storeVars>>

(***************************************************************************)
(* VectorDatabase (rag_service.py)                                         *)
(*                                                                         *)
(* A vector is a sequence of numbers.  The model takes integer components, *)
(* computes with them exactly, and keeps a cosine similarity as the pair   *)
(* (num, den2) that stands for num / sqrt(den2).                           *)
(***************************************************************************)
StoreIds == {"s", "t"}
Dimensions == {1, 2}
Components == {-1, 0, 1}          \* of a query vector
StoredComponents == {0, 1}         \* of a stored vector
Paths == {"a.json"}
Metadatas ==
    { [type |-> "navigation", route |-> "/chatbot"],
      [type |-> "meta", route |-> None] }

VectorsOfLen(n, components) == [1..n -> components]

\* __init__
VectorDatabase(dimension) ==
    [dimension |-> dimension, vectors |-> <<>>, metadata |-> <<>>]

RECURSIVE SumTo(_, _)
SumTo(f, n) == IF n = 0 THEN 0 ELSE f[n] + SumTo(f, n - 1)

\* np.dot and the square of np.linalg.norm
Dot(a, b) == SumTo([i \in 1..Len(a) |-> a[i] * b[i]], Len(a))
NormSq(a) == Dot(a, a)

\* max(norm, 1e-10): only a norm of zero is changed.  The dot product with a
\* zero vector is 0, and 0 / (positive) is 0 whatever the positive guard is.
GuardedNormSq(a) == IF NormSq(a) = 0 THEN 1 ELSE NormSq(a)

\* Variant: the dot product is not divided by the norms.
dot_product_only(query_vector, vector) ==
    [num |-> Dot(vector, query_vector), den2 |-> 1]

\* Lines 39-47: dot_product / (query_norm * doc_norm)
cosine_similarity(query_vector, vector) ==
    [num |-> Dot(vector, query_vector),
     den2 |-> GuardedNormSq(query_vector) * GuardedNormSq(vector)]

\* a <= b for a = a.num / sqrt(a.den2), b = b.num / sqrt(b.den2)
SimLeq(a, b) ==
    IF a.num >= 0 /\ b.num >= 0
    THEN a.num * a.num * b.den2 <= b.num * b.num * a.den2
    ELSE IF a.num < 0 /\ b.num < 0
    THEN a.num * a.num * b.den2 >= b.num * b.num * a.den2
    ELSE a.num < 0

SimIsOne(a) == a.num > 0 /\ a.num * a.num = a.den2
SimIsZero(a) == a.num = 0

\* np.argsort(similarities): the indices in an ascending order of similarity.
\* The default sort kind is not stable, so equal similarities may come out in
\* either order: every ascending order is a possible result.
ArgSorts(similarities) ==
    LET n == Len(similarities)
    IN  { order \in [1..n -> 1..n] :
            /\ \A i, j \in 1..n : i # j => order[i] # order[j]
            /\ \A i \in 1..(n - 1) :
                  SimLeq(similarities[order[i]], similarities[order[i + 1]]) }

\* list[-k:] for k >= 0.  -0 is 0, so list[-0:] is list[0:], the whole list.
SliceFromEnd(list, k) ==
    IF k = 0 \/ k >= Len(list) THEN list
    ELSE SubSeq(list, Len(list) - k + 1, Len(list))

\* list[::-1]
Reversed(list) == [i \in 1..Len(list) |-> list[Len(list) + 1 - i]]

\* Line 50
top_indices(order, top_k) == Reversed(SliceFromEnd(order, top_k))

\* Lines 52-57: ids are zero-based, TLA+ sequences are one-based.
Results(db, query_vector, indices) ==
    [i \in 1..Len(indices) |->
        [id |-> indices[i] - 1,
         similarity |-> cosine_similarity(query_vector, db.vectors[indices[i]]),
         metadata |-> db.metadata[indices[i]]]]

Similarities(db, query_vector) ==
    [i \in 1..Len(db.vectors) |-> cosine_similarity(query_vector, db.vectors[i])]

\* Every list search(query_vector, top_k) can return.
search(db, query_vector, top_k) ==
    IF db.vectors = <<>> THEN { <<>> }
    ELSE { Results(db, query_vector, top_indices(order, top_k)) :
              order \in ArgSorts(Similarities(db, query_vector)) }

\* Variant: the dimension is not validated.
accepts_any(db, vector) == TRUE

\* Line 19
accepts(db, vector) == Len(vector) = db.dimension

\* Variant: ids are one-based.
next_id_one_based(db) == Len(db.vectors) + 1

\* Line 23
next_id(db) == Len(db.vectors)

\* Lines 24-25
with_document(db, vector, metadata) ==
    [db EXCEPT !.vectors = Append(@, vector), !.metadata = Append(@, metadata)]

AddDocument(id, vector, metadata, bound) ==
    /\ LET db == stores[id]
       IN  IF ~accepts(db, vector)
           THEN /\ last' = [op |-> "add_document", store |-> id, vector |-> vector,
                            metadata |-> metadata, raised |-> "ValueError",
                            returned |-> -1]
                /\ UNCHANGED storeVars
           ELSE /\ adds < bound
                /\ stores' = [stores EXCEPT ![id] = with_document(db, vector, metadata)]
                /\ adds' = adds + 1
                /\ last' = [op |-> "add_document", store |-> id, vector |-> vector,
                            metadata |-> metadata, raised |-> "",
                            returned |-> next_id(db)]
                /\ UNCHANGED <<files, saved>>
    /\ UNCHANGED chatVars

\* np.dot raises ValueError when the query's length is not that of the vectors.
\* search changes nothing but `last`, so a search that follows a search starts
\* from the same store and reaches no state a single search does not reach: the
\* model explores a search after every other operation only.
Search(id, query_vector, top_k) ==
    /\ last.op # "search"
    /\ LET db == stores[id]
       IN  IF db.vectors # <<>> /\ Len(query_vector) # Len(db.vectors[1])
           THEN last' = [op |-> "search", store |-> id, query_vector |-> query_vector,
                         top_k |-> top_k, raised |-> "ValueError", returned |-> <<>>]
           ELSE \E results \in search(db, query_vector, top_k) :
                    last' = [op |-> "search", store |-> id,
                             query_vector |-> query_vector, top_k |-> top_k,
                             raised |-> "", returned |-> results]
    /\ UNCHANGED <<chatVars, storeVars>>

(***************************************************************************)
(* save and load: the store as a JSON document and back                    *)
(***************************************************************************)
JsonNumber(n) == [type |-> "number", value |-> n]
JsonValue(x) ==
    IF x = None THEN [type |-> "null", value |-> "null"]
    ELSE [type |-> "string", value |-> x]
JsonObject(dict) == [k \in DOMAIN dict |-> JsonValue(dict[k])]
JsonArray(vector) == [i \in 1..Len(vector) |-> JsonNumber(vector[i])]

\* json.dump(data, f), lines 61-68
json_dump(db) ==
    [dimension |-> JsonNumber(db.dimension),
     vectors |-> [i \in 1..Len(db.vectors) |-> JsonArray(db.vectors[i])],
     metadata |-> [i \in 1..Len(db.metadata) |-> JsonObject(db.metadata[i])]]

PyValue(j) == IF j.type = "null" THEN None ELSE j.value
PyDict(object) == [k \in DOMAIN object |-> PyValue(object[k])]
PyList(array) == [i \in 1..Len(array) |-> PyValue(array[i])]

\* json.load(f), line 74
json_load(document) ==
    [dimension |-> PyValue(document.dimension),
     vectors |-> [i \in 1..Len(document.vectors) |-> PyList(document.vectors[i])],
     metadata |-> [i \in 1..Len(document.metadata) |-> PyDict(document.metadata[i])]]

\* Variant: the loaded records are added to the ones in memory.
merged(db, data) ==
    [dimension |-> data.dimension,
     vectors |-> db.vectors \o data.vectors,
     metadata |-> db.metadata \o data.metadata]

\* Variant: the dimension in memory is kept.
keeps_dimension(db, data) ==
    [dimension |-> db.dimension, vectors |-> data.vectors, metadata |-> data.metadata]

\* Lines 76-78: the three fields are replaced by the loaded ones.
replaced(db, data) ==
    [dimension |-> data.dimension, vectors |-> data.vectors, metadata |-> data.metadata]

Save(id, path) ==
    /\ files' = Put(files, path, json_dump(stores[id]))
    /\ saved' = Put(saved, path, stores[id])
    /\ last' = [op |-> "save", store |-> id, path |-> path]
    /\ UNCHANGED <<chatVars, stores, adds>>

Load(id, path) ==
    /\ IF path \in DOMAIN files
       THEN stores' = [stores EXCEPT ![id] = replaced(@, json_load(files[path]))]
       ELSE UNCHANGED stores
    /\ last' = [op |-> "load", store |-> id, path |-> path]
    /\ UNCHANGED <<chatVars, files, saved, adds>>

(***************************************************************************)
(* The chat history under concurrent requests                              *)
(***************************************************************************)
\* NavigationService.__init__, lines 12-17
InitConfig(context_files) ==
    /\ app_context_file \in context_files
    /\ context_keywords =
          extract_keywords(navigation_contexts(load_app_context(app_context_file)))

\* The configuration the chat runs with.
ChatContextFiles ==
    { [kind |-> "json",
       document |-> [navigation_contexts |->
          << [route |-> "/chatbot", intent_keywords |-> <<StrHelp>>,
              user_needs |-> <<>>],
             [route |-> "/podcasts", intent_keywords |-> <<StrProblemCapital>>,
              user_needs |-> <<StrProblem>>] >>]] }

\* chat_memory = {} (line 13) and no request in flight.
InitHistories ==
    /\ chat_memory = <<>>
    /\ chat_history = <<>>
    /\ clock = 0
    /\ pc = [p \in Slots |-> "idle"]
    /\ req = [p \in Slots |-> NoRequest]
    /\ appended = [u \in Users |-> <<>>]

InitChat ==
    /\ InitConfig(ChatContextFiles)
    /\ InitHistories

InitStores ==
    /\ files = <<>>
    /\ saved = <<>>
    /\ adds = 0
    /\ last = [op |-> "init"]

Init ==
    /\ deployment \in {"service", "direct"}
    /\ InitChat
    /\ stores = [id \in StoreIds |-> VectorDatabase(DefaultDimension)]
    /\ InitStores

Next ==
    \/ \E p \in Slots, m \in Messages, u \in UserIds :
          ProcessMessageStart(p, m, u, MaxClock)
    \/ \E p \in Slots, o \in Outcomes : ProcessMessageFinish(p, o)
    \/ \E u \in Users : ClearChatHistory(u)
    \/ \E p \in Slots, m \in Messages, u \in UserIds : ChatStart(p, m, u, MaxClock)
    \/ \E p \in Slots, o \in Outcomes : ChatFinish(p, o)

Spec == Init /\ [][Next]_vars

(***************************************************************************)
(* Long conversations: enough turns for the truncation to happen           *)
(***************************************************************************)
LongMessages == { <<"h","i">> }
LongOutcomes == { [kind |-> "ok", text |-> <<"r">>] }

NextLong ==
    \/ \E p \in Slots, m \in LongMessages, u \in Users :
          ProcessMessageStart(p, m, u, MaxLongClock)
    \/ \E p \in Slots, o \in LongOutcomes : ProcessMessageFinish(p, o)
    \/ \E u \in Users : ClearChatHistory(u)
    \/ \E p \in Slots, m \in Messages, u \in Users : ChatStart(p, m, u, MaxLongClock)
    \/ \E p \in Slots, o \in LongOutcomes : ChatFinish(p, o)

\* A checkout without the data file: load_app_context returns {} and no route
\* is configured.
NoContextFile == { [kind |-> "missing"] }

InitLong ==
    /\ deployment \in {"service", "direct"}
    /\ InitConfig(NoContextFile)
    /\ InitHistories
    /\ stores = [id \in StoreIds |-> VectorDatabase(DefaultDimension)]
    /\ InitStores

SpecLong == InitLong /\ [][NextLong]_vars

(***************************************************************************)
(* One vector store: add_document and search                               *)
(***************************************************************************)
TopKs == 0..(MaxRecords + 1)

InitStore ==
    /\ deployment = "service"
    /\ InitChat
    /\ \E d \in Dimensions :
          stores = [id \in StoreIds |-> VectorDatabase(d)]
    /\ InitStores

NextStore ==
    \/ \E d \in Dimensions : \E v \in VectorsOfLen(d, StoredComponents), m \in Metadatas :
          AddDocument("s", v, m, MaxRecords)
    \/ \E d \in Dimensions : \E q \in VectorsOfLen(d, Components), k \in TopKs :
          Search("s", q, k)

SpecStore == InitStore /\ [][NextStore]_vars

(***************************************************************************)
(* Two vector stores and the files they save to and load from              *)
(***************************************************************************)
InitFiles ==
    /\ deployment = "service"
    /\ InitChat
    /\ stores \in [StoreIds -> {VectorDatabase(d) : d \in Dimensions}]
    /\ InitStores

NextFiles ==
    \/ \E id \in StoreIds, d \in Dimensions :
          \E v \in VectorsOfLen(d, StoredComponents), m \in Metadatas :
          AddDocument(id, v, m, MaxFileRecords)
    \/ \E id \in StoreIds, path \in Paths : Save(id, path)
    \/ \E id \in StoreIds, path \in Paths : Load(id, path)

SpecFiles == InitFiles /\ [][NextFiles]_vars

(***************************************************************************)
(* The navigation service under every configuration                        *)
(***************************************************************************)
InitNav ==
    /\ deployment = "service"
    /\ InitConfig(AppContextFiles(MaxContexts))
    /\ chat_memory = <<>>
    /\ chat_history = <<>>
    /\ clock = 0
    /\ pc = [p \in Slots |-> "idle"]
    /\ req = [p \in Slots |-> NoRequest]
    /\ appended = [u \in Users |-> <<>>]
    /\ stores = [id \in StoreIds |-> VectorDatabase(DefaultDimension)]
    /\ InitStores

NextNav == \E m \in NavMessages, t \in NavTags : SuggestNavigations(m, t)

SpecNav == InitNav /\ [][NextNav]_vars

(***************************************************************************)
(* The language service on texts with and without a language prefix        *)
(***************************************************************************)
NextLang ==
    \/ \E text \in Texts, detected \in Detections : DetectLanguage(text, detected)
    \/ \E text \in Texts : CleanLanguagePrefix(text)

SpecLang == Init /\ [][NextLang]_vars

(***************************************************************************)
(* One exchange at a time with every answer the upstream call can give     *)
(***************************************************************************)
ReplyContextFiles == ChatContextFiles \cup NoContextFile

InitReply ==
    /\ deployment = "service"
    /\ InitConfig(ReplyContextFiles)
    /\ chat_memory = <<>>
    /\ chat_history = <<>>
    /\ clock = 0
    /\ pc = [p \in Slots |-> "idle"]
    /\ req = [p \in Slots |-> NoRequest]
    /\ appended = [u \in Users |-> <<>>]
    /\ stores = [id \in StoreIds |-> VectorDatabase(DefaultDimension)]
    /\ InitStores

NextReply ==
    \/ \E m \in Messages, u \in {"u1", None} :
          ProcessMessageStart("s1", m, u, MaxReplyClock)
    \/ \E o \in ReplyOutcomes : ProcessMessageFinish("s1", o)
    \/ ClearChatHistory("u1")

SpecReply == InitReply /\ [][NextReply]_vars

(***************************************************************************)
(* Properties of the chat history                                          *)
(***************************************************************************)
Stored(u) ==
    IF deployment = "service" THEN Get(chat_memory, u) ELSE Get(chat_history, u)

Roles(list) == [i \in DOMAIN list |-> list[i].role]

Starts(p) == pc[p] = "idle" /\ pc'[p] = "await_llm"
Returns(p) == pc[p] = "await_llm" /\ pc'[p] = "idle"

\* C1: each user's stored history is the last min(n, 10) of the n turns appended
\* for that user since the user's last clear, in append order, so it never holds
\* more than 10 turns.
C1_HistoryIsLastTenAppended ==
    \A u \in Users :
        /\ Stored(u) = LastN(appended[u], 10)
        /\ Len(Stored(u)) <= 10

\* Six user+assistant pairs of one user went in, the ten most recent are stored.
C1_Witness ==
    \E u \in Users :
        /\ Len(appended[u]) = 12
        /\ Roles(appended[u]) = <<"user", "assistant", "user", "assistant",
                                  "user", "assistant", "user", "assistant",
                                  "user", "assistant", "user", "assistant">>
        /\ Len(Stored(u)) = 10
        /\ Stored(u)[1] = appended[u][3]

C3_HandedHistoryIsTheHistoryAtStart ==
    \A p \in Slots :
        (deployment = "service" /\ pc[p] = "await_llm") =>
            /\ req[p].user_history = req[p].stored_at_start
            /\ Len(req[p].user_history) <= 10
            /\ \A i \in DOMAIN req[p].user_history :
                  req[p].user_history[i] \in Range(req[p].stored_at_start)

\* C4: two requests of one user that await the upstream call at the same time
\* have both written to that user's history already, no lock keeping the second
\* one out: unless the history was cleared since, their two user turns are its
\* two newest turns, so whichever returns first the exchanges end up interleaved.
C4_OverlappingRequestsInterleave ==
    \A p, q \in Slots :
        ( /\ p # q
          /\ deployment = "service"
          /\ pc[p] = "await_llm" /\ pc[q] = "await_llm"
          /\ Truthy(req[p].user_id) /\ req[p].user_id = req[q].user_id ) =>
            /\ req[p].user_id \in DOMAIN chat_memory
            /\ LET h == chat_memory[req[p].user_id]
               IN  Len(h) >= 2 => h[Len(h) - 1].role = "user" /\ h[Len(h)].role = "user"

\* Both requests are over and the stored history is user, user, assistant,
\* assistant: no order of running them one after the other produces that.
C4_Witness ==
    \E u \in Users :
        /\ deployment = "service"
        /\ \A p \in Slots : pc[p] = "idle"
        /\ u \in DOMAIN chat_memory
        /\ Roles(chat_memory[u]) = <<"user", "user", "assistant", "assistant">>

(***************************************************************************)
(* Properties of the vector store                                          *)
(***************************************************************************)
Added == last.op = "add_document" /\ last.raised = ""
Searched == last.op = "search" /\ last.raised = ""
NonIncreasing(results) ==
    \A i \in 1..(Len(results) - 1) :
        SimLeq(results[i + 1].similarity, results[i].similarity)

\* C5: add_document with a vector whose length is not the store's dimension
\* raises the dimension-mismatch error and leaves vectors, metadata and
\* dimension of the store (and of every other store) as they were.
C5_MismatchIsRejectedAndChangesNothing ==
    [][(last'.op = "add_document"
          /\ Len(last'.vector) # stores[last'.store].dimension) =>
            /\ last'.raised = "ValueError"
            /\ stores' = stores
      ]_vars

\* A vector of the wrong length was offered to a store that holds records.
C5_Witness ==
    /\ last.op = "add_document"
    /\ last.raised = "ValueError"
    /\ Len(last.vector) # stores[last.store].dimension
    /\ Len(stores[last.store].vectors) = 2

\* C6: a successful add_document returns the number of records stored before
\* the call, which is the number of successful adds so far (failed adds take no
\* id); the vector and the metadata are stored at that index, the earlier records
\* stay, and vectors and metadata always have the same length.
C6_AddReturnsTheNextIndex ==
    /\ [][(last'.op = "add_document" /\ last'.raised = "") =>
            LET before == stores[last'.store]
                after == stores'[last'.store]
            IN  /\ last'.returned = Len(before.vectors)
                /\ last'.returned = adds
                /\ after.vectors = Append(before.vectors, last'.vector)
                /\ after.metadata = Append(before.metadata, last'.metadata)
                /\ after.vectors[last'.returned + 1] = last'.vector
                /\ after.metadata[last'.returned + 1] = last'.metadata
         ]_vars
    /\ [](\A id \in StoreIds : Len(stores[id].vectors) = Len(stores[id].metadata))

\* The second successful add returned id 1.
C6_Witness ==
    /\ Added
    /\ last.returned = 1
    /\ Len(stores[last.store].vectors) = 2
    /\ stores[last.store].vectors[2] = last.vector

\* C7: whatever add_document, save and load did, every stored vector of every
\* store has the length the store's dimension says.
C7_StoredVectorsHaveTheDimension ==
    \A id \in StoreIds :
        \A i \in DOMAIN stores[id].vectors :
            Len(stores[id].vectors[i]) = stores[id].dimension

\* A store has loaded the records another store of the other dimension saved.
C7_Witness ==
    /\ last.op = "load"
    /\ stores[last.store].vectors # <<>>
    /\ \E other \in StoreIds :
          /\ stores[other].vectors # <<>>
          /\ stores[other].dimension # stores[last.store].dimension

\* C8: search returns at most top_k triples, in non-increasing order of cosine
\* similarity, each id the index of the record whose metadata and similarity
\* come with it, and nothing from an empty store.
C8_SearchReturnsAtMostTopK ==
    Searched =>
        LET db == stores[last.store]
            results == last.returned
        IN  /\ Len(results) <= last.top_k
            /\ NonIncreasing(results)
            /\ \A i \in DOMAIN results :
                  /\ results[i].id \in 0..(Len(db.vectors) - 1)
                  /\ results[i].metadata = db.metadata[results[i].id + 1]
                  /\ results[i].similarity =
                        cosine_similarity(last.query_vector, db.vectors[results[i].id + 1])
            /\ db.vectors = <<>> => results = <<>>

\* The newest record of the store that was searched.
Newest(db) == Len(db.vectors)
SearchedForNewest ==
    /\ Searched
    /\ last.top_k = 1
    /\ stores[last.store].vectors # <<>>
    /\ last.query_vector = stores[last.store].vectors[Newest(stores[last.store])]

\* C9 as claimed: for every vector of the store's dimension, add_document
\* succeeds and a following search(v, 1) returns exactly the record just added,
\* with cosine similarity 1.
C9_SearchFindsTheRecordJustAdded ==
    SearchedForNewest =>
        LET db == stores[last.store]
        IN  /\ Len(last.returned) = 1
            /\ last.returned[1].id = Newest(db) - 1
            /\ last.returned[1].metadata = db.metadata[Newest(db)]
            /\ SimIsOne(last.returned[1].similarity)

\* C9 as amended: for every vector v of the store's dimension add_document
\* succeeds, and a following search(v, 1) returns exactly one triple.  When v has
\* a non-zero component its similarity is 1 and its record holds a vector of
\* similarity 1 with v: the record just added, unless an earlier record ties with
\* it, and then either of them.  When v is the zero vector the similarity is 0.
C9_SearchFindsARecordOfSimilarityOne ==
    /\ [][(last'.op = "add_document"
             /\ Len(last'.vector) = stores[last'.store].dimension) =>
               /\ last'.raised = ""
               /\ stores'[last'.store].vectors =
                      Append(stores[last'.store].vectors, last'.vector)
         ]_vars
    /\ [](SearchedForNewest =>
            LET db == stores[last.store]
                v == last.query_vector
                found == last.returned[1]
                ties == {i \in 1..(Newest(db) - 1) :
                            SimIsOne(cosine_similarity(v, db.vectors[i]))}
            IN  /\ Len(last.returned) = 1
                /\ found.metadata = db.metadata[found.id + 1]
                /\ IF NormSq(v) = 0
                   THEN SimIsZero(found.similarity)
                   ELSE /\ SimIsOne(found.similarity)
                        /\ NormSq(db.vectors[found.id + 1]) # 0
                        /\ found.id + 1 \in ties \cup {Newest(db)}
                        /\ ties = {} => found.id = Newest(db) - 1)

\* The store holds another record, and the search for the newest vector, which
\* is not the zero vector, came back with the newest record.
C9_Witness ==
    /\ SearchedForNewest
    /\ Newest(stores[last.store]) = 2
    /\ NormSq(last.query_vector) # 0
    /\ stores[last.store].vectors[1] # last.query_vector
    /\ last.returned[1].id = 1

\* C10: a store that loads a path another store (or itself) saved to has the
\* dimension, the vectors and the metadata the saving store had at the time of
\* that save, in the same order, and nothing of what it held before.
C10_LoadRestoresWhatWasSaved ==
    [][(last'.op = "load" /\ last'.path \in DOMAIN files) =>
          /\ stores'[last'.store] = saved[last'.path]
          /\ \A id \in StoreIds \ {last'.store} : stores'[id] = stores[id]
      ]_vars

\* Store t loaded the two records store s saved, a null among their metadata.
C10_Witness ==
    /\ last.op = "load"
    /\ last.store = "t"
    /\ last.path \in DOMAIN saved
    /\ stores["t"] = saved[last.path]
    /\ stores["t"] = stores["s"]
    /\ Len(stores["t"].vectors) = 2
    /\ \E i \in 1..2 : stores["t"].metadata[i].route = None

(***************************************************************************)
(* Properties of the navigation suggestions                                *)
(***************************************************************************)
Suggested == last.op = "suggest_navigations"
Scores == last.route_scores
Configured(route) == \E i \in DOMAIN context_keywords : context_keywords[i].route = route
Position(route) == CHOOSE i \in DOMAIN context_keywords : context_keywords[i].route = route
ScoreOf(route) == Scores[Position(route)].score
PositiveRoutes == { Scores[i].route : i \in { j \in DOMAIN Scores : Scores[j].score > 0 } }

\* The navigation contexts as the configuration lists them, and the place at
\* which a route's context was first loaded.
Loaded == navigation_contexts(load_app_context(app_context_file))
FirstLoaded(route) ==
    CHOOSE i \in DOMAIN Loaded :
        /\ Loaded[i].route = route
        /\ \A j \in 1..(i - 1) : Loaded[j].route # route

\* route a comes before route b in the ranking: a higher score, or the same
\* score and loaded earlier.
RanksBefore(a, b) ==
    \/ ScoreOf(a) > ScoreOf(b)
    \/ ScoreOf(a) = ScoreOf(b) /\ FirstLoaded(a) < FirstLoaded(b)

Min(a, b) == IF a <= b THEN a ELSE b
KnownRoutes ==
    { context_keywords[i].route : i \in DOMAIN context_keywords }
        \cup Range(DefaultSuggestions)
IndexIn(list, x) == CHOOSE i \in DOMAIN list : list[i] = x

\* C11 as claimed: suggest_navigations returns a list of at most 3 route strings.
C11_AtMostThreeRoutes ==
    Suggested =>
        /\ Len(last.returned) <= 3
        /\ Range(last.returned) \subseteq KnownRoutes

\* C11 as amended: suggest_navigations returns a list of at most 4 route strings;
\* it has 4 only when three routes that are not "/chatbot" scored above 0 and
\* took the first three places, and then the fourth is the appended "/chatbot".
C11_AtMostThreeRoutesAndTheChatbot ==
    Suggested =>
        /\ Len(last.returned) <= 4
        /\ Range(last.returned) \subseteq KnownRoutes
        /\ Len(last.returned) = 4 =>
              /\ last.returned[4] = "/chatbot"
              /\ \A i \in 1..3 :
                    /\ last.returned[i] # "/chatbot"
                    /\ last.returned[i] \in PositiveRoutes

\* Three routes scored for the tags alone and "/chatbot", not configured, was
\* appended as the fourth.
C11_Witness ==
    /\ Suggested
    /\ last.message = <<>>
    /\ ~Configured("/chatbot")
    /\ Len(last.returned) = 4
    /\ last.returned[4] = "/chatbot"

\* C12: whenever no route scores above 0 the result is exactly "/chatbot",
\* "/podcasts", "/community" in that order; that is the case for the empty
\* message with empty tags under every configuration, and for every message and
\* tags when the configuration file was missing or unreadable.
EmptyTags(tags) ==
    /\ \A key \in {"crops", "topics", "issues", "seasons"} : TagsGet(tags, key) = <<>>
    /\ ~HasCity(tags)

C12_DefaultsWhenNothingScores ==
    Suggested =>
        /\ PositiveRoutes = {} => last.returned = <<"/chatbot", "/podcasts", "/community">>
        /\ (last.message = <<>> /\ EmptyTags(last.tags)) => PositiveRoutes = {}
        /\ app_context_file.kind # "json" =>
              /\ context_keywords = <<>>
              /\ last.returned = <<"/chatbot", "/podcasts", "/community">>

\* The configuration file was missing, and a message and tags that score under
\* other configurations got the default list.
C12_Witness ==
    /\ Suggested
    /\ app_context_file.kind = "missing"
    /\ last.message = StrProblem
    /\ TagsGet(last.tags, "issues") # <<>>
    /\ TagsGet(last.tags, "crops") # <<>>
    /\ last.returned = <<"/chatbot", "/podcasts", "/community">>

IssuesAndProblem ==
    /\ Suggested
    /\ TagsGet(last.tags, "issues") # <<>>
    /\ Contains(LowerStr(last.message), StrProblem)

\* C13 as claimed: under every configuration, with tags.issues non-empty and a
\* message that contains "problem", "/chatbot" is among the first three routes
\* returned.
C13_ChatbotAmongTheFirstThree ==
    IssuesAndProblem => "/chatbot" \in Range(FirstN(last.returned, 3))

\* The routes that take a place before "/chatbot": every scoring route when
\* "/chatbot" is not configured, else the ones that rank before it.
AheadOfChatbot ==
    { r \in PositiveRoutes \ {"/chatbot"} :
        Configured("/chatbot") => RanksBefore(r, "/chatbot") }

\* C13 as amended: with tags.issues non-empty and a message that contains
\* "problem", "/chatbot" is in the list returned and, when it is a configured
\* route, scores at least 4; it is among the first three routes unless three
\* other routes rank before it (with a higher score, or an equal score and
\* loaded earlier; every route scoring above 0 does when "/chatbot" is not
\* configured), and then it is the fourth and last route.
C13_ChatbotReturnedFourthAtWorst ==
    IssuesAndProblem =>
        /\ "/chatbot" \in Range(last.returned)
        /\ Configured("/chatbot") => ScoreOf("/chatbot") >= 4
        /\ Cardinality(AheadOfChatbot) < 3 =>
              "/chatbot" \in Range(FirstN(last.returned, 3))
        /\ Cardinality(AheadOfChatbot) >= 3 =>
              /\ Len(last.returned) = 4
              /\ last.returned[4] = "/chatbot"
              /\ "/chatbot" \notin Range(FirstN(last.returned, 3))

\* "/chatbot" is configured and scored, three routes loaded before it scored as
\* much, and it came fourth.
C13_Witness ==
    /\ IssuesAndProblem
    /\ Configured("/chatbot")
    /\ ScoreOf("/chatbot") >= 4
    /\ Len(last.returned) = 4
    /\ last.returned[4] = "/chatbot"

\* C18: when some route scores above 0, the list starts with the routes that
\* score above 0, up to 3 of them, highest score first and routes of equal score
\* in the order their contexts were loaded; no route that scores 0 is among
\* these, and every scoring route left out ranks behind them.
C18_TopRoutesByScoreThenLoadOrder ==
    (Suggested /\ PositiveRoutes # {}) =>
        LET k == Min(3, Cardinality(PositiveRoutes))
            top == FirstN(last.returned, k)
        IN  /\ Len(last.returned) >= k
            /\ Range(top) \subseteq PositiveRoutes
            /\ \A i, j \in 1..k : i < j => RanksBefore(top[i], top[j])
            /\ \A r \in PositiveRoutes \ Range(top) :
                  \A i \in 1..k : RanksBefore(top[i], r)

\* Two routes of equal score lead the list in the order they were loaded, which
\* is not their alphabetical order, ahead of a third with a lower score.
C18_Witness ==
    /\ Suggested
    /\ Len(last.returned) >= 3
    /\ last.returned[1] = "/podcasts"
    /\ last.returned[2] = "/chatbot"
    /\ ScoreOf("/podcasts") = ScoreOf("/chatbot")
    /\ last.returned[3] \in PositiveRoutes
    /\ ScoreOf(last.returned[3]) < ScoreOf("/chatbot")

\* C19: the list returned is never empty, holds no route twice and holds
\* "/chatbot" exactly once: as its last element, after the up to three top
\* routes, when some route scored above 0 and "/chatbot" is not among the top
\* routes, and in the default list when no route scored above 0.
C19_ChatbotExactlyOnce ==
    Suggested =>
        LET k == Min(3, Cardinality(PositiveRoutes))
            top == FirstN(last.returned, k)
        IN  /\ last.returned # <<>>
            /\ \A i, j \in DOMAIN last.returned :
                  last.returned[i] = last.returned[j] => i = j
            /\ Cardinality({i \in DOMAIN last.returned : last.returned[i] = "/chatbot"}) = 1
            /\ (PositiveRoutes # {} /\ "/chatbot" \notin Range(top)) =>
                  last.returned = Append(top, "/chatbot")
            /\ (PositiveRoutes # {} /\ "/chatbot" \in Range(top)) =>
                  last.returned = top
            /\ PositiveRoutes = {} => last.returned = DefaultSuggestions

\* "/chatbot" is configured, scored 0 and was appended behind the one route that
\* scored.
C19_Witness ==
    /\ Suggested
    /\ Configured("/chatbot")
    /\ ScoreOf("/chatbot") = 0
    /\ Len(last.returned) = 2
    /\ last.returned[2] = "/chatbot"

(***************************************************************************)
(* Properties of the language service                                      *)
(***************************************************************************)
Detected == last.op = "detect_language"
Cleaned == last.op = "clean_language_prefix"

\* The word of an "in <word>" prefix names a language: it is a supported code,
\* or the display name of a supported language occurs in it.
NamesLanguage(word) ==
    \/ LowerStr(word) \in LanguageCodes
    \/ \E i \in DOMAIN SUPPORTED_LANGUAGES :
          Contains(LowerStr(word), LowerStr(SUPPORTED_LANGUAGES[i].name))

LanguageNamed(word) ==
    IF LowerStr(word) \in LanguageCodes THEN LowerStr(word)
    ELSE SUPPORTED_LANGUAGES[
             CHOOSE i \in DOMAIN SUPPORTED_LANGUAGES :
                 Contains(LowerStr(word), LowerStr(SUPPORTED_LANGUAGES[i].name))].code

\* C16: for a text that starts with "in <word>" and a whitespace, colon or
\* hyphen, detect_language answers from the prefix, without the statistical
\* detector, exactly when <word> is a supported code or holds a supported
\* language's display name, and then with that language's code; in every other
\* case the answer is the statistical fallback's.
C16_ExplicitPrefixNamesTheLanguage ==
    Detected =>
        LET word == PrefixWord(last.text)
        IN  IF word # NoText /\ NamesLanguage(word)
            THEN /\ ~last.consulted
                 /\ last.returned = LanguageNamed(word)
            ELSE /\ last.consulted
                 /\ last.returned = mapped_detection(last.detected)

\* C17: clean_language_prefix removes the leading "in <language>" marker, its
\* separator and the whitespace behind it, only when detect_language recognizes
\* the marker as an explicit language prefix, and the result no longer starts
\* with that marker; every other text is returned unchanged.
C17_CleanRemovesOnlyARecognizedPrefix ==
    Cleaned =>
        IF extract_explicit_language(last.text) # NoText
        THEN /\ last.returned =
                    SubSeq(last.text, PrefixEnd(last.text) + 1, Len(last.text))
             /\ \/ PrefixWord(last.returned) = NoText
                \/ LowerStr(PrefixWord(last.returned)) # LowerStr(PrefixWord(last.text))
        ELSE last.returned = last.text

(***************************************************************************)
(* Properties of the upstream call and of what process_message makes of it *)
(***************************************************************************)
Answered == last.op \in {"process_message_return", "process_message_raise"}

\* C14: on an upstream failure generate_farming_response raises nothing: for a
\* status other than success it returns "API Error: <status>" and for a failure
\* of the transport (the 30-second timeout included) an error message, each with
\* the all-empty default tags, and process_message returns a response with that
\* message; one upstream request was sent for the call, none again.
C14_UpstreamFailureGivesAnErrorMessage ==
    Answered =>
        /\ last.requests = 1
        /\ last.outcome.kind = "status" =>
              /\ last.generated.message.type = "str"
              /\ last.generated.message.value =
                    <<"API Error: ", ToString(last.outcome.code)>>
              /\ last.generated.tags.type = "dict"
              /\ last.generated.tags.value =
                    [crops |-> <<>>, city |-> None, topics |-> <<>>,
                     issues |-> <<>>, seasons |-> <<>>]
              /\ last.op = "process_message_return"
              /\ last.response.message = last.generated.message.value
        /\ last.outcome.kind = "transport" =>
              /\ last.generated.message.type = "str"
              /\ last.generated.message.value[1] = "Error communicating with Claude API: "
              /\ last.generated.message.value[2] = last.outcome.error
              /\ last.generated.tags.type = "dict"
              /\ last.generated.tags.value =
                    [crops |-> <<>>, city |-> None, topics |-> <<>>,
                     issues |-> <<>>, seasons |-> <<>>]
              /\ last.op = "process_message_return"
              /\ last.response.message = last.generated.message.value

\* The upstream answered 404 to a request of a user with a history, and the
\* error message is that user's newest assistant turn.
C14_Witness ==
    /\ last.op = "process_message_return"
    /\ last.outcome.kind = "status"
    /\ last.outcome.code = 404
    /\ "u1" \in DOMAIN chat_memory
    /\ Len(chat_memory["u1"]) = 2
    /\ chat_memory["u1"][2].role = "assistant"
    /\ chat_memory["u1"][2].content = <<"API Error: ", "404">>

\* The reply is a JSON object with a string under "message" and, under "tags",
\* an object with the five keys.
ExpectedShape(json) ==
    /\ json.type = "dict"
    /\ {"message", "tags"} \subseteq DOMAIN json.value
    /\ json.value["message"].type = "str"
    /\ json.value["tags"].type = "dict"
    /\ DOMAIN json.value["tags"].value = {"crops", "city", "topics", "issues", "seasons"}

\* C15: for every reply that is not a JSON object of the expected shape (not
\* JSON, keys missing, or other values under the keys) the reply text itself is
\* the message, the tags are the all-empty default, and process_message returns
\* a response instead of raising.
C15_MalformedReplyGivesTheRawText ==
    (Answered /\ last.outcome.kind = "reply"
        /\ ~ExpectedShape(json_loads(last.outcome.text))) =>
        /\ last.op = "process_message_return"
        /\ last.generated.message.value = last.outcome.text
        /\ last.generated.tags.type = "dict"
        /\ DOMAIN last.generated.tags.value = {"crops", "city", "topics", "issues", "seasons"}
        /\ last.generated.tags.value =
              [crops |-> <<>>, city |-> None, topics |-> <<>>,
               issues |-> <<>>, seasons |-> <<>>]
        /\ last.response.message = last.outcome.text
        /\ last.response.tags =
              [crops |-> <<>>, city |-> None, topics |-> <<>>,
               issues |-> <<>>, seasons |-> <<>>]

(***************************************************************************)
(* Frame of the chat history operations                                    *)
(***************************************************************************)
SameHistory(u) ==
    /\ u \in DOMAIN chat_memory <=> u \in DOMAIN chat_memory'
    /\ u \in DOMAIN chat_memory => chat_memory'[u] = chat_memory[u]

\* C20: a step of process_message for user id A (before the upstream call, or
\* after it whether it succeeded or failed) and clear_chat_history(A) leave the
\* stored history of every other user id as it was; process_message without a
\* user id (None or "") leaves the whole map as it was; clear_chat_history
\* returns true and empties the history exactly when the user id has an entry,
\* and else returns false and changes nothing.
C20_OtherHistoriesAreLeftAlone ==
    [][ /\ \A p \in Slots :
              (deployment = "service" /\ (Starts(p) \/ Returns(p))) =>
                  LET A == IF Starts(p) THEN req'[p].user_id ELSE req[p].user_id
                  IN  IF Truthy(A)
                      THEN \A u \in UserIds \ {A} : SameHistory(u)
                      ELSE chat_memory' = chat_memory
        /\ last'.op = "clear_chat_history" =>
              LET A == last'.user_id
              IN  /\ \A u \in UserIds \ {A} : SameHistory(u)
                  /\ last'.result = (A \in DOMAIN chat_memory)
                  /\ A \in DOMAIN chat_memory =>
                        /\ A \in DOMAIN chat_memory'
                        /\ chat_memory'[A] = <<>>
                  /\ A \notin DOMAIN chat_memory => chat_memory' = chat_memory
      ]_vars

\* One user's history was cleared while the other user's history, written by a
\* request whose upstream call failed, is still there.
C20_Witness ==
    /\ last.op = "clear_chat_history"
    /\ last.result = TRUE
    /\ chat_memory[last.user_id] = <<>>
    /\ \E u \in Users \ {last.user_id} :
          /\ u \in DOMAIN chat_memory
          /\ Len(chat_memory[u]) = 2
          /\ chat_memory[u][2].content = <<"API Error: ", "500">>

====
